---------------------------- MODULE Spec2Model ----------------------------
(***************************************************************************)
(* Relationship source collections (bevy_ecs) and the protocol that keeps  *)
(* a relationship's forward pointer (the Source Component on a holder) and *)
(* the reverse collection (the Target Component on the target) in step.    *)
(*                                                                         *)
(* The four collection variants are translated from                        *)
(* relationship_source_collection.rs.  The hooks that react to component   *)
(* inserts, removes and despawns live outside that file; they are modelled *)
(* from the protocol of the specification (section 4.2) and from the       *)
(* tests of the file, and drive the collections only through the trait.    *)
(***************************************************************************)
EXTENDS Integers, Sequences, FiniteSets, TLC

\* ------------------------------------------------------------ bounds

\* Entities the world may spawn in one behaviour: ids 1..MaxEntities.
MaxEntities == 3

\* Longest list of the collection specification.
MaxLen == 3

\* Longest input sequence handed to extend_from_iter.
MaxExtend == 2

\* ---------------------------------------------------------- entities

\* Entity::PLACEHOLDER, the reserved "no entity" value.
PLACEHOLDER == 0

Entities == 1..MaxEntities

\* The four implementations of RelationshipSourceCollection.
Kinds == {"vec", "hashset", "smallvec", "entity"}

\* The iteration order of a hash set is unspecified by the code: every
\* enumeration of the universe S is a possible order.
Perms(S) == {o \in [1..Cardinality(S) -> S] :
               \A i, j \in DOMAIN o : i # j => o[i] # o[j]}

Range(s) == {s[i] : i \in DOMAIN s}

\* ------------------------------------------------ Vec<Entity> (77-127)

VecNew == << >>

VecWithCapacity(capacity) == << >>

VecReserve(c, additional) == c

VecAdd(c, entity) == [c |-> Append(c, entity), ret |-> TRUE]

\* <[Entity]>::iter(self).position(|e| *e == entity): index of the first
\* match, 0 for None.
VecPosition(c, entity) ==
  IF \E i \in DOMAIN c : c[i] = entity
  THEN CHOOSE i \in DOMAIN c : c[i] = entity /\ \A j \in 1..(i - 1) : c[j] # entity
  ELSE 0

\* Vec::remove(self, index): drops that element, shifts the rest left.
VecRemoveAt(c, index) == SubSeq(c, 1, index - 1) \o SubSeq(c, index + 1, Len(c))

\* Faulty variant: finds the entity and reports success, but removes nothing.
VecRemove_KeepsEntity(c, entity) ==
  [c |-> c, ret |-> VecPosition(c, entity) # 0]

VecRemove(c, entity) ==
  LET index == VecPosition(c, entity)
  IN  IF index # 0
      THEN [c |-> VecRemoveAt(c, index), ret |-> TRUE]
      ELSE [c |-> c, ret |-> FALSE]

\* Faulty variant: stops one item short.
VecIter_SkipsLast(c) == SubSeq(c, 1, Len(c) - 1)

VecIter(c) == c

VecLen(c) == Len(c)

VecClear(c) == << >>

VecShrinkToFit(c) == c

VecExtendFromIter(c, entities) == c \o entities

\* ------------------------------------------- EntityHashSet (129-173)

HashSetNew == {}

HashSetWithCapacity(capacity) == {}

HashSetReserve(c, additional) == c

\* Faulty variant: reports success like the lists do, present or not.
HashSetAdd_AlwaysTrue(c, entity) == [c |-> c \cup {entity}, ret |-> TRUE]

\* HashSet::insert: true iff the value was not present.
HashSetAdd(c, entity) == [c |-> c \cup {entity}, ret |-> entity \notin c]

\* Faulty variant: reports whether the value was present, and leaves it in.
HashSetRemove_KeepsEntity(c, entity) == [c |-> c, ret |-> entity \in c]

\* HashSet::remove: true iff the value was present.
HashSetRemove(c, entity) == [c |-> c \ {entity}, ret |-> entity \in c]

\* Faulty variant: yields the first member only.
HashSetIter_FirstOnly(c, ord) ==
  SubSeq(SelectSeq(ord, LAMBDA e : e \in c), 1, 1)

\* The members in the order `ord` enumerates them.
HashSetIter(c, ord) == SelectSeq(ord, LAMBDA e : e \in c)

HashSetLen(c) == Cardinality(c)

HashSetClear(c) == {}

HashSetShrinkToFit(c) == c

HashSetExtendFromIter(c, entities) == c \cup Range(entities)

\* ------------------------------------- SmallVec<[Entity; N]> (175-225)

SmallVecNew == << >>

SmallVecWithCapacity(capacity) == << >>

SmallVecReserve(c, additional) == c

SmallVecAdd(c, entity) == [c |-> Append(c, entity), ret |-> TRUE]

\* Faulty variant: the index of the last match (rposition).
SmallVecPosition_Last(c, entity) ==
  IF \E i \in DOMAIN c : c[i] = entity
  THEN CHOOSE i \in DOMAIN c : c[i] = entity /\ \A j \in (i + 1)..Len(c) : c[j] # entity
  ELSE 0

SmallVecPosition(c, entity) ==
  IF \E i \in DOMAIN c : c[i] = entity
  THEN CHOOSE i \in DOMAIN c : c[i] = entity /\ \A j \in 1..(i - 1) : c[j] # entity
  ELSE 0

SmallVecRemoveAt(c, index) == SubSeq(c, 1, index - 1) \o SubSeq(c, index + 1, Len(c))

\* Faulty variant: finds the entity and reports success, but removes nothing.
SmallVecRemove_KeepsEntity(c, entity) ==
  [c |-> c, ret |-> SmallVecPosition(c, entity) # 0]

SmallVecRemove(c, entity) ==
  LET index == SmallVecPosition(c, entity)
  IN  IF index # 0
      THEN [c |-> SmallVecRemoveAt(c, index), ret |-> TRUE]
      ELSE [c |-> c, ret |-> FALSE]

\* Faulty variant: starts at the second item.
SmallVecIter_SkipsFirst(c) == SubSeq(c, 2, Len(c))

SmallVecIter(c) == c

SmallVecLen(c) == Len(c)

SmallVecClear(c) == << >>

SmallVecShrinkToFit(c) == c

SmallVecExtendFromIter(c, entities) == c \o entities

\* ---------------------------------------------------- Entity (227-278)

EntityNew == PLACEHOLDER

EntityWithCapacity(capacity) == EntityNew

EntityReserve(c, additional) == c

\* Faulty variant: returns true without storing the entity.
EntityAdd_NoStore(c, entity) == [c |-> c, ret |-> TRUE]

\* Faulty variant: an occupied slot keeps its occupant (first write wins).
EntityAdd_KeepsOccupant(c, entity) ==
  [c |-> IF c = PLACEHOLDER THEN entity ELSE c, ret |-> TRUE]

\* *self = entity; true
EntityAdd(c, entity) == [c |-> entity, ret |-> TRUE]

\* Faulty variant: clears the slot whoever occupies it.
EntityRemove_Unconditional(c, entity) == [c |-> PLACEHOLDER, ret |-> TRUE]

EntityRemove(c, entity) ==
  IF c = entity
  THEN [c |-> PLACEHOLDER, ret |-> TRUE]
  ELSE [c |-> c, ret |-> FALSE]

\* Faulty variant: yields nothing.
EntityIter_Empty(c) == << >>

\* core::iter::once(*self): one item, whatever the slot holds.
EntityIter(c) == << c >>

EntityLen(c) == IF c = PLACEHOLDER THEN 0 ELSE 1

EntityClear(c) == PLACEHOLDER

EntityShrinkToFit(c) == c

\* Faulty variant: the slot takes the first item (next() for last()).
EntityExtendFromIter_First(c, entities) ==
  IF entities # << >> THEN entities[1] ELSE c

\* entities.into_iter().last(): the slot takes the last item, if any.
EntityExtendFromIter(c, entities) ==
  IF entities # << >> THEN entities[Len(entities)] ELSE c

\* ------------------------------- trait RelationshipSourceCollection

New(k) ==
  CASE k = "vec" -> VecNew
    [] k = "hashset" -> HashSetNew
    [] k = "smallvec" -> SmallVecNew
    [] k = "entity" -> EntityNew

WithCapacity(k, capacity) ==
  CASE k = "vec" -> VecWithCapacity(capacity)
    [] k = "hashset" -> HashSetWithCapacity(capacity)
    [] k = "smallvec" -> SmallVecWithCapacity(capacity)
    [] k = "entity" -> EntityWithCapacity(capacity)

Reserve(k, c, additional) ==
  CASE k = "vec" -> VecReserve(c, additional)
    [] k = "hashset" -> HashSetReserve(c, additional)
    [] k = "smallvec" -> SmallVecReserve(c, additional)
    [] k = "entity" -> EntityReserve(c, additional)

Add(k, c, entity) ==
  CASE k = "vec" -> VecAdd(c, entity)
    [] k = "hashset" -> HashSetAdd(c, entity)
    [] k = "smallvec" -> SmallVecAdd(c, entity)
    [] k = "entity" -> EntityAdd(c, entity)

Remove(k, c, entity) ==
  CASE k = "vec" -> VecRemove(c, entity)
    [] k = "hashset" -> HashSetRemove(c, entity)
    [] k = "smallvec" -> SmallVecRemove(c, entity)
    [] k = "entity" -> EntityRemove(c, entity)

Iter(k, c, ord) ==
  CASE k = "vec" -> VecIter(c)
    [] k = "hashset" -> HashSetIter(c, ord)
    [] k = "smallvec" -> SmallVecIter(c)
    [] k = "entity" -> EntityIter(c)

CollLen(k, c) ==
  CASE k = "vec" -> VecLen(c)
    [] k = "hashset" -> HashSetLen(c)
    [] k = "smallvec" -> SmallVecLen(c)
    [] k = "entity" -> EntityLen(c)

Clear(k, c) ==
  CASE k = "vec" -> VecClear(c)
    [] k = "hashset" -> HashSetClear(c)
    [] k = "smallvec" -> SmallVecClear(c)
    [] k = "entity" -> EntityClear(c)

ShrinkToFit(k, c) ==
  CASE k = "vec" -> VecShrinkToFit(c)
    [] k = "hashset" -> HashSetShrinkToFit(c)
    [] k = "smallvec" -> SmallVecShrinkToFit(c)
    [] k = "entity" -> EntityShrinkToFit(c)

\* Faulty variant: compares len with 1.
IsEmpty_LenIsOne(k, c) == CollLen(k, c) = 1

\* fn is_empty(&self) -> bool { self.len() == 0 }
IsEmpty(k, c) == CollLen(k, c) = 0

ExtendFromIter(k, c, entities) ==
  CASE k = "vec" -> VecExtendFromIter(c, entities)
    [] k = "hashset" -> HashSetExtendFromIter(c, entities)
    [] k = "smallvec" -> SmallVecExtendFromIter(c, entities)
    [] k = "entity" -> EntityExtendFromIter(c, entities)

\* The trait's default extend_from_iter: add each item in turn.
RECURSIVE DefaultExtendFromIter(_, _, _)
DefaultExtendFromIter(k, c, entities) ==
  IF entities = << >>
  THEN c
  ELSE DefaultExtendFromIter(k, Add(k, c, Head(entities)).c, Tail(entities))

\* ===================================================================
\* The world: one relationship pair (Source Component, Target Component).
\* ===================================================================

VARIABLES
  kind,      \* the collection type of the Target Component
  cascades,  \* the pair's linked_spawn flag
  spawned,   \* number of entities spawned so far (ids 1..spawned)
  alive,     \* the live entities
  src,       \* src[e]: << >> or << t >>, e's Source Component naming t
  tgt,       \* tgt[e]: << >> or << c >>, e's Target Component holding c
  last,      \* the last external mutation and the world before it
  ckind,     \* collection specification: the variant under test
  coll,      \* collection specification: the collection
  clast,     \* collection specification: the last call, its input and result
  cprev      \* collection specification: the call before that one

wvars == << kind, cascades, spawned, alive, src, tgt, last >>
cvars == << ckind, coll, clast, cprev >>
vars == << kind, cascades, spawned, alive, src, tgt, last,
           ckind, coll, clast, cprev >>

\* The world as one value, for the operators below and for `last`.
World == [alive |-> alive, src |-> src, tgt |-> tgt]

HasSrc(W, e) == W.src[e] # << >>
HasTgt(W, e) == W.tgt[e] # << >>
TargetOf(W, e) == W.src[e][1]
CollOf(W, e) == W.tgt[e][1]

\* -------------------------------------------- the hooks (spec 4.2)

\* Add holder h to t's reverse collection, creating the Target Component
\* (with a new, empty collection) when t has none.
AddToTarget(k, W, h, t) ==
  LET c == IF HasTgt(W, t) THEN CollOf(W, t) ELSE New(k)
  IN  [W EXCEPT !.tgt[t] = << Add(k, c, h).c >>]

\* Remove holder h from t's reverse collection; nothing to do when t is
\* gone or has no Target Component.
RemoveFromTarget(k, W, h, t) ==
  IF t \in W.alive /\ HasTgt(W, t)
  THEN [W EXCEPT !.tgt[t] = << Remove(k, CollOf(W, t), h).c >>]
  ELSE W

\* Remove t's Target Component when its reverse collection is empty.
DropIfEmpty(k, W, t) ==
  IF t \in W.alive /\ HasTgt(W, t) /\ IsEmpty(k, CollOf(W, t))
  THEN [W EXCEPT !.tgt[t] = << >>]
  ELSE W

\* On removal of the Source Component from h (target was t): remove h
\* from t's reverse collection; if now empty, remove t's Target Component.
OnRemoveSource(k, W, h) ==
  IF h \in W.alive /\ HasSrc(W, h)
  THEN LET t == TargetOf(W, h)
           W1 == RemoveFromTarget(k, W, h, t)
           W2 == DropIfEmpty(k, W1, t)
       IN  [W2 EXCEPT !.src[h] = << >>]
  ELSE W

\* On insert of Source Component (target = t) onto h.  Fresh insert: add h
\* to t's reverse collection.  Replace (h already had one, naming t_old):
\* remove h from t_old's collection; add h to t's collection; if t_old's
\* collection became empty, remove its Target Component.
OnInsertSource(k, W, h, t) ==
  IF ~HasSrc(W, h)
  THEN AddToTarget(k, [W EXCEPT !.src[h] = << t >>], h, t)
  ELSE LET t_old == TargetOf(W, h)
           W1 == RemoveFromTarget(k, W, h, t_old)
           W2 == AddToTarget(k, [W1 EXCEPT !.src[h] = << t >>], h, t)
       IN  DropIfEmpty(k, W2, t_old)

\* Remove the Source Component from every entity of `members` in turn.
RECURSIVE DetachAll(_, _, _)
DetachAll(k, W, members) ==
  IF members = << >>
  THEN W
  ELSE DetachAll(k, OnRemoveSource(k, W, Head(members)), Tail(members))

\* On removal of the Target Component from t: every entity in its reverse
\* collection loses its Source Component; the Target Component is gone.
OnRemoveTarget(k, W, t, ord) ==
  LET members == Iter(k, CollOf(W, t), ord)
      W1 == DetachAll(k, W, members)
  IN  [W1 EXCEPT !.tgt[t] = << >>]

\* The entity leaves the store with all its components.
Kill(W, e) ==
  [alive |-> W.alive \ {e},
   src |-> [W.src EXCEPT ![e] = << >>],
   tgt |-> [W.tgt EXCEPT ![e] = << >>]]

\* Despawn, as a worklist of entities still to despawn (depth first).  An
\* entity of the list that is no longer alive is skipped.  For a live one:
\* as a holder, it behaves as the removal of its Source Component; as a
\* target, its holders are despawned too (cascades) or lose their Source
\* Components (no cascade).  `log` lists the entities in despawn order.
RECURSIVE DespawnRun(_, _, _, _, _, _)
DespawnRun(k, casc, W, work, log, ord) ==
  IF work = << >>
  THEN [W |-> W, log |-> log]
  ELSE LET e == Head(work)
       IN  IF e \notin W.alive
           THEN DespawnRun(k, casc, W, Tail(work), log, ord)
           ELSE LET W1 == OnRemoveSource(k, W, e)
                    members == IF HasTgt(W1, e)
                               THEN Iter(k, CollOf(W1, e), ord)
                               ELSE << >>
                IN  IF casc
                    THEN DespawnRun(k, casc, Kill(W1, e),
                                    members \o Tail(work), Append(log, e), ord)
                    ELSE DespawnRun(k, casc, Kill(DetachAll(k, W1, members), e),
                                    Tail(work), Append(log, e), ord)

OnDespawn(k, casc, W, e, ord) == DespawnRun(k, casc, W, << e >>, << >>, ord)

\* ------------------------------------------------------- the actions

\* No call yet, and no add before the last call.
NoCall == [op |-> "none", e |-> PLACEHOLDER, es |-> << >>, pre |-> << >>, ret |-> FALSE]
NoPrior == [op |-> "none", e |-> PLACEHOLDER, pre |-> << >>, ret |-> FALSE]

\* No external mutation yet.
NoMutation ==
  [op |-> "none", h |-> PLACEHOLDER, t |-> PLACEHOLDER,
   pre |-> [alive |-> {}, src |-> [e \in Entities |-> << >>],
            tgt |-> [e \in Entities |-> << >>]],
   log |-> << >>, after_insert |-> FALSE]

\* The orders a hash set may iterate in; the other variants have one.
IterOrders == IF kind = "hashset" THEN Perms(Entities) ELSE {[i \in Entities |-> i]}

Commit(W, op, h, t, log) ==
  /\ alive' = W.alive
  /\ src' = W.src
  /\ tgt' = W.tgt
  /\ last' = [op |-> op, h |-> h, t |-> t, pre |-> World, log |-> log,
               \* the mutation before this one inserted h's Source Component
               after_insert |-> (last.op = "insert" /\ last.h = h)]
  /\ UNCHANGED << kind, cascades, cvars >>

\* world.spawn_empty()
Spawn ==
  /\ spawned < MaxEntities
  /\ spawned' = spawned + 1
  /\ Commit([World EXCEPT !.alive = alive \cup {spawned + 1}],
            "spawn", spawned + 1, PLACEHOLDER, << >>)

\* world.entity_mut(h).insert(Rel(t)): both entities exist (an insert
\* naming an entity that does not exist is rejected before the hooks run),
\* and the relationship links the holder to another entity.
Insert(h, t) ==
  /\ h \in alive /\ t \in alive /\ h # t
  /\ Commit(OnInsertSource(kind, World, h, t), "insert", h, t, << >>)
  /\ UNCHANGED spawned

\* world.entity_mut(h).remove::<Rel>()
RemoveSource(h) ==
  /\ h \in alive /\ HasSrc(World, h)
  /\ Commit(OnRemoveSource(kind, World, h), "remove", h, TargetOf(World, h), << >>)
  /\ UNCHANGED spawned

\* world.entity_mut(t).remove::<RelTarget>()
RemoveTarget(t) ==
  /\ t \in alive /\ HasTgt(World, t)
  /\ \E W \in {OnRemoveTarget(kind, World, t, ord) : ord \in IterOrders} :
       Commit(W, "remove_target", PLACEHOLDER, t, << >>)
  /\ UNCHANGED spawned

\* world.despawn(e)
Despawn(e) ==
  /\ e \in alive
  /\ \E r \in {OnDespawn(kind, cascades, World, e, ord) : ord \in IterOrders} :
       Commit(r.W, "despawn", e, e, r.log)
  /\ UNCHANGED spawned

\* The collection specification stands still while the world runs.
CollIdle ==
  /\ ckind = "vec"
  /\ coll = New("vec")
  /\ clast = NoCall
  /\ cprev = NoPrior

Init ==
  /\ kind \in Kinds
  /\ cascades \in BOOLEAN
  /\ spawned = 0
  /\ alive = {}
  /\ src = [e \in Entities |-> << >>]
  /\ tgt = [e \in Entities |-> << >>]
  /\ last = NoMutation
  /\ CollIdle

Next ==
  \/ Spawn
  \/ \E h, t \in Entities : Insert(h, t)
  \/ \E h \in Entities : RemoveSource(h)
  \/ \E t \in Entities : RemoveTarget(t)
  \/ \E e \in Entities : Despawn(e)

Spec == Init /\ [][Next]_vars

\* ===================================================================
\* The collections alone: one collection of each variant, driven through
\* the trait by arbitrary calls (the placeholder included: the trait takes
\* any Entity).
\* ===================================================================

Inputs == Entities \cup {PLACEHOLDER}

\* Every sequence over S of length at most n.
SeqsUpTo(S, n) == UNION {[1..m -> S] : m \in 0..n}

\* A list grows by n more items only within the bound.
Fits(n) == ckind \in {"vec", "smallvec"} => VecLen(coll) + n <= MaxLen

Call(c, op, e, es, ret) ==
  /\ coll' = c
  /\ clast' = [op |-> op, e |-> e, es |-> es, pre |-> coll, ret |-> ret]
  /\ cprev' = IF clast.op = "add"
              THEN [op |-> "add", e |-> clast.e, pre |-> clast.pre, ret |-> clast.ret]
              ELSE NoPrior
  /\ UNCHANGED << ckind, wvars >>

CNew == Call(New(ckind), "new", PLACEHOLDER, << >>, FALSE)

CWithCapacity == \E n \in 0..MaxLen :
  Call(WithCapacity(ckind, n), "with_capacity", PLACEHOLDER, << >>, FALSE)

CReserve == \E n \in 0..MaxLen :
  Call(Reserve(ckind, coll, n), "reserve", PLACEHOLDER, << >>, FALSE)

CAdd(e) ==
  /\ Fits(1)
  /\ LET r == Add(ckind, coll, e) IN Call(r.c, "add", e, << >>, r.ret)

CRemove(e) ==
  LET r == Remove(ckind, coll, e) IN Call(r.c, "remove", e, << >>, r.ret)

CClear == Call(Clear(ckind, coll), "clear", PLACEHOLDER, << >>, FALSE)

CShrinkToFit == Call(ShrinkToFit(ckind, coll), "shrink_to_fit", PLACEHOLDER, << >>, FALSE)

CExtendFromIter(es) ==
  /\ Fits(Len(es))
  /\ Call(ExtendFromIter(ckind, coll, es), "extend_from_iter", PLACEHOLDER, es, FALSE)

\* The world stands still while the collections run.
WorldIdle ==
  /\ kind = "vec"
  /\ cascades = FALSE
  /\ spawned = 0
  /\ alive = {}
  /\ src = [e \in Entities |-> << >>]
  /\ tgt = [e \in Entities |-> << >>]
  /\ last = NoMutation

CollInit ==
  /\ ckind \in Kinds
  /\ coll = New(ckind)
  /\ clast = NoCall
  /\ cprev = NoPrior
  /\ WorldIdle

CollNext ==
  \/ CNew
  \/ CWithCapacity
  \/ CReserve
  \/ \E e \in Inputs : CAdd(e)
  \/ \E e \in Inputs : CRemove(e)
  \/ CClear
  \/ CShrinkToFit
  \/ \E es \in SeqsUpTo(Inputs, MaxExtend) : CExtendFromIter(es)

CollSpec == CollInit /\ [][CollNext]_vars

\* ===================================================================
\* Properties
\* ===================================================================

\* What a collection holds, read off its representation.
MemberSet(k, c) ==
  CASE k \in {"vec", "smallvec"} -> Range(c)
    [] k = "hashset" -> c
    [] k = "entity" -> IF c = PLACEHOLDER THEN {} ELSE {c}

\* The collection holding h alone, as the tests of the file write it:
\* vec!(a), SmallVec::from_buf([a]), &a.
Singleton(k, h) ==
  CASE k \in {"vec", "smallvec"} -> << h >>
    [] k = "hashset" -> {h}
    [] k = "entity" -> h

\* Collection c with holder h taken out, the other members as they were.
Without(k, c, h) ==
  CASE k \in {"vec", "smallvec"} -> SelectSeq(c, LAMBDA e : e # h)
    [] k = "hashset" -> c \ {h}
    [] k = "entity" -> IF c = h THEN PLACEHOLDER ELSE c

\* The Target Component t is due once h has left its reverse collection:
\* none when nothing is left.
TargetWithout(k, W, t, h) ==
  IF ~HasTgt(W, t) \/ MemberSet(k, CollOf(W, t)) \ {h} = {}
  THEN << >>
  ELSE << Without(k, CollOf(W, t), h) >>

\* The live holders whose Source Component points at t.
Holders(W, t) == {h \in W.alive : HasSrc(W, h) /\ TargetOf(W, h) = t}

\* The members of e's reverse collection, none without a Target Component.
MembersOf(k, W, e) == IF HasTgt(W, e) THEN MemberSet(k, CollOf(W, e)) ELSE {}

\* S with everything that is, transitively, in a reverse collection of it.
RECURSIVE CascadeSet(_, _, _)
CascadeSet(k, W, S) ==
  LET S2 == S \cup UNION {MembersOf(k, W, e) : e \in S}
  IN  IF S2 = S THEN S ELSE CascadeSet(k, W, S2)

\* ---- C1: whenever t has a Target Component, the length of its reverse
\* collection is the number of live holders whose Source Component points
\* at t, for every collection variant.  (Violated by the single slot.)
C1_LenCountsHolders ==
  \A t \in alive :
    HasTgt(World, t) =>
      CollLen(kind, CollOf(World, t)) = Cardinality(Holders(World, t))

\* ---- C2: a fresh insert of a Source Component naming t on a holder h
\* that had none, where t had no Target Component, leaves t with a Target
\* Component whose reverse collection is exactly h.
C2_FreshInsertCreatesTarget ==
  (last.op = "insert" /\ ~HasSrc(last.pre, last.h) /\ ~HasTgt(last.pre, last.t))
    => /\ HasTgt(World, last.t)
       /\ CollOf(World, last.t) = Singleton(kind, last.h)
       /\ CollLen(kind, CollOf(World, last.t)) = 1
       /\ src[last.h] = << last.t >>

C2_Witness ==
  /\ last.op = "insert" /\ ~HasSrc(last.pre, last.h) /\ ~HasTgt(last.pre, last.t)
  /\ kind = "entity"
  /\ tgt[last.t] = << last.h >>

\* ---- C3: insert h -> t, then remove it from h: h has no Source
\* Component; t has no Target Component when no other holder points at t,
\* and otherwise keeps one holding exactly the other holders.  (Violated by
\* the single slot, whose displaced holders of C1 are not in the slot.)
C3_RoundTrip ==
  (last.op = "remove" /\ last.after_insert /\ last.t \in alive)
    => /\ ~HasSrc(World, last.h)
       /\ IF Holders(World, last.t) = {}
          THEN ~HasTgt(World, last.t)
          ELSE /\ HasTgt(World, last.t)
               /\ MemberSet(kind, CollOf(World, last.t)) = Holders(World, last.t)
               /\ CollLen(kind, CollOf(World, last.t)) = Cardinality(Holders(World, last.t))

\* ---- C4: removing the Target Component from t directly removes the
\* Source Component from every holder that was in t's reverse collection,
\* and those holders stay alive.
C4_RemoveTargetDetachesHolders ==
  last.op = "remove_target"
    => /\ ~HasTgt(World, last.t)
       /\ last.t \in alive
       /\ \A h \in MembersOf(kind, last.pre, last.t) :
            h \in alive /\ ~HasSrc(World, h)

C4_Witness ==
  /\ last.op = "remove_target"
  /\ Cardinality(MembersOf(kind, last.pre, last.t)) >= 2
  /\ \A h \in MembersOf(kind, last.pre, last.t) : HasSrc(last.pre, h)

\* ---- C5: replacing h's Source Component from t_old to another target t
\* takes h out of t_old's reverse collection, removes t_old's Target
\* Component if nothing is left in it, and leaves t with a Target Component
\* whose reverse collection contains h.
C5_ReplaceMovesHolder ==
  (last.op = "insert" /\ HasSrc(last.pre, last.h)
     /\ TargetOf(last.pre, last.h) # last.t)
    => LET t_old == TargetOf(last.pre, last.h)
       IN  /\ src[last.h] = << last.t >>
           /\ tgt[t_old] = TargetWithout(kind, last.pre, t_old, last.h)
           /\ HasTgt(World, last.t)
           /\ last.h \in MemberSet(kind, CollOf(World, last.t))

C5_Witness ==
  /\ last.op = "insert" /\ HasSrc(last.pre, last.h)
  /\ TargetOf(last.pre, last.h) # last.t
  /\ HasTgt(last.pre, TargetOf(last.pre, last.h))
  /\ ~HasTgt(World, TargetOf(last.pre, last.h))
  /\ ~HasTgt(last.pre, last.t)

\* ---- C6: on a single-slot pair whose target t holds h2, inserting a
\* Source Component naming t on another holder h leaves the slot holding h
\* only; h2 is not told, and a holder that is not in the slot of the target
\* it names keeps its Source Component through every mutation that is not
\* of its own link (an insert on it, a removal from it, its despawn).
Stale(W, h2) ==
  /\ h2 \in W.alive /\ HasSrc(W, h2)
  /\ LET t == TargetOf(W, h2)
     IN  ~(t \in W.alive /\ HasTgt(W, t) /\ CollOf(W, t) = h2)

OwnLinkMutation(h2) ==
  \/ last.op \in {"insert", "remove"} /\ last.h = h2
  \/ last.op = "despawn" /\ last.h = h2

C6_SingleSlotLastWriteWins ==
  kind = "entity" =>
    /\ (last.op = "insert" /\ HasTgt(last.pre, last.t)
          /\ CollOf(last.pre, last.t) # last.h)
         => LET h2 == CollOf(last.pre, last.t)
            IN  /\ tgt[last.t] = << last.h >>
                /\ h2 \in alive
                /\ src[h2] = << last.t >>
                /\ Stale(World, h2)
    /\ \A h2 \in Entities :
         (Stale(last.pre, h2) /\ ~OwnLinkMutation(h2))
           => h2 \in alive /\ src[h2] = last.pre.src[h2]

C6_Witness ==
  /\ kind = "entity"
  /\ last.op = "insert" /\ HasTgt(last.pre, last.t)
  /\ LET h2 == CollOf(last.pre, last.t)
     IN  /\ h2 # last.h
         /\ last.pre.src[h2] = << last.t >>
         /\ tgt[last.t] = << last.h >>
         /\ src[h2] = << last.t >>

\* ---- C7: with cascades, despawning t despawns every entity that was in
\* t's reverse collection and, transitively, every entity in the reverse
\* collections of those: none of them is alive afterwards.
C7_CascadeDespawnsHolders ==
  (cascades /\ last.op = "despawn")
    => \A e \in CascadeSet(kind, last.pre, {last.h}) : e \notin alive

C7_Witness ==
  /\ cascades /\ last.op = "despawn"
  /\ \E e \in CascadeSet(kind, last.pre, {last.h}) :
       /\ e # last.h
       /\ e \notin MembersOf(kind, last.pre, last.h)
       /\ e \in last.pre.alive /\ e \notin alive

C10_HashSetAddTwice ==
  (ckind = "hashset" /\ clast.op = "add" /\ cprev.op = "add"
     /\ cprev.e = clast.e /\ cprev.e \notin cprev.pre)
    => /\ CollLen(ckind, coll) = CollLen(ckind, cprev.pre) + 1
       /\ Cardinality(coll) = Cardinality(cprev.pre) + 1
       /\ cprev.ret = TRUE
       /\ clast.ret = FALSE
       /\ coll = clast.pre

C10_Witness ==
  /\ ckind = "hashset" /\ clast.op = "add" /\ cprev.op = "add"
  /\ cprev.e = clast.e /\ cprev.e \notin cprev.pre
  /\ cprev.pre # {}
  /\ Cardinality(coll) = Cardinality(cprev.pre) + 1

\* ---- the collections alone (CollSpec)

\* The members a collection reports: the items of iter that len counts.
\* (The lists report their items in order, the hash set its elements, the
\* single slot its occupant when len is 1.)
Effective(k, c) ==
  CASE k \in {"vec", "smallvec"} -> Iter(k, c, << >>)
    [] k = "hashset" -> c
    [] k = "entity" -> SubSeq(EntityIter(c), 1, EntityLen(c))

IsMember(k, c, e) ==
  IF k = "hashset" THEN e \in c ELSE e \in Range(Effective(k, c))

\* ---- C11: for every variant, add(e) returns true exactly when the
\* members the collection reports changed.  (Violated by the single slot:
\* add returns true when e already occupies it, and for the placeholder.)
C11_AddReportsChange ==
  clast.op = "add"
    => (clast.ret <=> Effective(ckind, coll) # Effective(ckind, clast.pre))

\* ---- C12: for every variant, remove(e) returns true exactly when
\* something was removed: a member leaves (len drops by 1, true), a
\* non-member changes nothing (false).  (Violated by the single slot:
\* remove(PLACEHOLDER) on the empty slot returns true.)
C12_RemoveReportsRemoval ==
  clast.op = "remove"
    => IF IsMember(ckind, clast.pre, clast.e)
       THEN /\ CollLen(ckind, coll) = CollLen(ckind, clast.pre) - 1
            /\ clast.ret = TRUE
       ELSE /\ coll = clast.pre
            /\ clast.ret = FALSE

\* ---- C13: for the lists, remove(e) on a sequence that contains e deletes
\* the first occurrence of e only; every other item, later duplicates of e
\* included, keeps its place in the order.
FirstIndex(s, e) == CHOOSE i \in DOMAIN s : s[i] = e /\ \A j \in 1..(i - 1) : s[j] # e

C13_RemoveFirstOccurrence ==
  (ckind \in {"vec", "smallvec"} /\ clast.op = "remove"
     /\ clast.e \in Range(clast.pre))
    => LET i == FirstIndex(clast.pre, clast.e)
       IN  /\ coll = [j \in 1..(Len(clast.pre) - 1) |->
                       IF j < i THEN clast.pre[j] ELSE clast.pre[j + 1]]
           /\ clast.ret = TRUE

C13_Witness ==
  /\ ckind = "smallvec" /\ clast.op = "remove"
  /\ Len(clast.pre) = 3
  /\ clast.pre[1] # clast.e /\ clast.pre[2] = clast.e /\ clast.pre[3] = clast.e
  /\ coll = << clast.pre[1], clast.e >>

\* ---- C14: for every variant and every input sequence, extend_from_iter
\* leaves the collection as add on each item in turn would; the single
\* slot ends up holding the last item, and keeps its occupant when the
\* sequence is empty.
C14_ExtendIsRepeatedAdd ==
  clast.op = "extend_from_iter"
    => /\ coll = DefaultExtendFromIter(ckind, clast.pre, clast.es)
       /\ ckind = "entity"
            => coll = IF clast.es = << >>
                      THEN clast.pre
                      ELSE clast.es[Len(clast.es)]

C14_Witness ==
  /\ ckind = "entity" /\ clast.op = "extend_from_iter"
  /\ Len(clast.es) = 2 /\ clast.es[1] # clast.es[2]
  /\ clast.pre # PLACEHOLDER /\ clast.pre # clast.es[2]
  /\ coll = clast.es[2]

\* ---- C15: for every variant, after any calls, iter yields exactly len()
\* entities, none of them the placeholder; an empty single slot iterates as
\* the empty sequence.  (Violated by the single slot: iter is once(*self),
\* which yields the placeholder when the slot is empty.)
C15_IterYieldsLenMembers ==
  \A ord \in Perms(Inputs) :
    LET items == Iter(ckind, coll, ord)
    IN  /\ Len(items) = CollLen(ckind, coll)
        /\ PLACEHOLDER \notin Range(items)

\* ---- the world again (Spec)

\* ---- C16: single-slot self-healing.  h2 -> t was displaced by h1 -> t
\* (t's slot holds h1, h2 still points at t).  Removing or replacing h2's
\* Source Component, or despawning h2, leaves t's slot holding h1, and t's
\* reverse collection then lists exactly the live holders pointing at t.
\* (Violated: see C1.)
C16_SingleSlotSelfHeals ==
  (kind = "entity" /\ last.op \in {"remove", "insert", "despawn"}
     /\ Stale(last.pre, last.h)
     /\ TargetOf(last.pre, last.h) \in last.pre.alive
     /\ HasTgt(last.pre, TargetOf(last.pre, last.h)))
    => LET t == TargetOf(last.pre, last.h)
           h1 == CollOf(last.pre, t)
       IN  /\ t \in alive
           /\ tgt[t] = << h1 >>
           /\ MemberSet(kind, CollOf(World, t)) = Holders(World, t)

\* ---- C17: for the list, small-list and hash-set variants, in every
\* reachable state a live holder h has a Source Component pointing at t if
\* and only if t has a Target Component whose reverse collection contains
\* h, and it contains h exactly once.
Occurrences(k, c, h) ==
  IF k = "hashset"
  THEN IF h \in c THEN 1 ELSE 0
  ELSE Cardinality({i \in DOMAIN c : c[i] = h})

C17_LinkedIffListed ==
  kind \in {"vec", "smallvec", "hashset"} =>
    \A h, t \in Entities :
      LET n == IF HasTgt(World, t) THEN Occurrences(kind, CollOf(World, t), h) ELSE 0
      IN  /\ (h \in alive /\ src[h] = << t >>) <=> (t \in alive /\ n >= 1)
          /\ n <= 1

C17_Witness ==
  /\ kind = "vec"
  /\ last.op = "despawn"
  /\ \E t \in alive : HasTgt(World, t) /\ Len(CollOf(World, t)) = 1
                        /\ Len(CollOf(last.pre, t)) = 2

\* ---- C18: after every external mutation, no live entity carries a
\* Target Component whose reverse collection is empty (and no despawned
\* entity carries one at all).
C18_NoEmptyTarget ==
  \A t \in Entities :
    HasTgt(World, t) => t \in alive /\ MemberSet(kind, CollOf(World, t)) # {}

C18_Witness ==
  /\ last.op \in {"remove", "despawn"}
  /\ last.t # last.h
  /\ last.t \in alive
  /\ HasTgt(last.pre, last.t) /\ ~HasTgt(World, last.t)

\* ---- C19: re-inserting on h a Source Component naming the target t it
\* already points at, h being t's only holder, ends with t carrying a
\* Target Component whose reverse collection is h exactly once, and with h
\* still pointing at t.
C19_ReinsertSameTarget ==
  (last.op = "insert" /\ last.pre.src[last.h] = << last.t >>
     /\ Holders(last.pre, last.t) = {last.h})
    => /\ src[last.h] = << last.t >>
       /\ tgt[last.t] = << Singleton(kind, last.h) >>
       /\ CollLen(kind, CollOf(World, last.t)) = 1

C19_Witness ==
  /\ last.op = "insert" /\ last.pre.src[last.h] = << last.t >>
  /\ Holders(last.pre, last.t) = {last.h}
  /\ kind = "smallvec"
  /\ last.pre.tgt[last.t] = << << last.h >> >>
  /\ tgt[last.t] = << << last.h >> >>

\* ---- C20: a cascading despawn ends on every relationship graph, cycles
\* included (a points at b and b points at a), and despawns each entity at
\* most once: the entities despawned, in order, are a duplicate-free list
\* of exactly the entities the cascade reaches, and nothing else leaves.
NoDuplicates(s) == \A i, j \in DOMAIN s : i # j => s[i] # s[j]

=============================================================================
